---- MODULE Spec2Model ----
(***************************************************************************)
(* gpuart: construction of the Bounding Volumes Hierarchy (bvh.cpp),       *)
(* its compilation into a flat buffer of RGBA quads, and the textual       *)
(* decoder of that buffer, over the primitives of core.cpp.                *)
(*                                                                         *)
(* Numbers.  Coordinates and radii are GLfloat in the source.  The model   *)
(* draws them from small integers, on which every float operation the      *)
(* builder performs (+, -, *0.5, comparison) is exact.  A buffer element   *)
(* is the 32-bit pattern of a GLfloat: [top, low] with top the set of      *)
(* bits 29..31 that are set and low the value of bits 0..28.               *)
(***************************************************************************)
EXTENDS Integers, Sequences, FiniteSets, TLC

\* ---------------------------------------------------------------- bounds

\* longest caller sequence of primitives
MaxPrims == 3
\* largest maxNumLevels argument
MaxLevels == 3
\* largest minPrimitivesPerNode argument
MaxMinPrims == 2
\* the most quads a buffer holds before Compile is called on it
MaxOffset == 2

\* ------------------------------------------------------- program constants

\* core.h: #define RGBA_ELEMS 4
RGBA_ELEMS == 4
\* core.h: #define RGBA_PAD 0.0f
RGBA_PAD == 0
\* bvh.h: LEAF = 1UL << 31, IS_LOWER = 1UL << 30, IS_ROOT = 1UL << 29: the bit index
LEAF == 31
IS_LOWER == 30
IS_ROOT == 29
\* bvh.cpp: 99.0e+29f, the start value of the range box (scaled to the model's integers:
\* larger than every coordinate a primitive of PrimitiveUniverse has)
HUGE == 99
\* core.h: enum Primitive_t
SPHERE == 0
DISC == 1
TRIANGLE == 2
CONE == 3

FLAGS_MASK == {LEAF, IS_LOWER, IS_ROOT}

\* ------------------------------------------------------ 32-bit patterns

RECURSIVE Pow2Rec(_)
Pow2Rec(n) == IF n = 0 THEN 1 ELSE 2 * Pow2Rec(n - 1)

\* 2^n, n in 0..30
Pow2Table == [n \in 0..30 |-> Pow2Rec(n)]
Pow2(n) == Pow2Table[n]

\* the float nearest to the integer n, for |n| < 2^25: a float has 24 significant
\* bits, so an odd n beyond 2^24 goes to the neighbour whose last kept bit is 0
\* (round to nearest, ties to even)
Fl32(n) ==
    IF -Pow2(24) <= n /\ n <= Pow2(24) THEN n
    ELSE IF n % 2 = 0 THEN n
    ELSE IF (n \div 2) % 2 = 0 THEN n - 1 ELSE n + 1

RECURSIVE Log2(_)
\* floor(log2(a)), a >= 1
Log2(a) == IF a < 2 THEN 0 ELSE 1 + Log2(a \div 2)

Abs(n) == IF n < 0 THEN -n ELSE n

Word(top, low) == [top |-> top, low |-> low]

\* the IEEE-754 single precision pattern of the integer n (|n| < 2^24): sign in bit
\* 31, the exponent 127 + floor(log2 |n|) in bits 23..30, the fraction below
FloatPattern(n) ==
    IF n = 0 THEN Word({}, 0)
    ELSE LET a == Abs(n)
             e == Log2(a)
             E == 127 + e
             mant == (a - Pow2(e)) * Pow2(23 - e)
         IN Word((IF n < 0 THEN {31} ELSE {})
                   \cup (IF E >= 128 THEN {30} ELSE {})
                   \cup (IF (E % 128) >= 64 THEN {29} ELSE {}),
                 (E % 64) * Pow2(23) + mant)

\* the patterns of the floats the model works with
FloatTable == [n \in (-HUGE)..HUGE |-> FloatPattern(n)]

\* the 32 bits of the GLfloat n
FloatBits(n) == FloatTable[n]

\* the value of the GLfloat with pattern w: an integer where it is one, the raw
\* pattern (a denormal, a fraction) otherwise
FloatOf(w) ==
    LET E == (IF 30 \in w.top THEN 128 ELSE 0) + (IF 29 \in w.top THEN 64 ELSE 0)
               + (w.low \div Pow2(23))
        mant == w.low % Pow2(23)
        e == E - 127
    IN IF E = 0 /\ mant = 0 /\ 31 \notin w.top THEN [int |-> 0]
       ELSE IF e >= 0 /\ e <= 23 /\ mant % Pow2(23 - e) = 0
            THEN [int |-> (IF 31 \in w.top THEN -1 ELSE 1) * (Pow2(e) + mant \div Pow2(23 - e))]
            ELSE [raw |-> w]

\* *reinterpret_cast<GLfloat*>(&u) for a uint32_t u < 2^29: the same 32 bits
UIntBits(u) == Word({}, u)

\* flags | bit
SetBit(w, b) == Word(w.top \cup {b}, w.low)

\* flags & bit
HasBit(w, b) == b \in w.top

\* flags & ~FLAGS_MASK
LowBits(w) == w.low

\* --------------------------------------------------------------- primitives

Min(a, b) == IF a < b THEN a ELSE b
Max(a, b) == IF a > b THEN a ELSE b

\* Sphere::Sphere, Sphere::CalcBoundingBox
Sphere(center, radius) ==
    [type |-> SPHERE, Center |-> center, Radius |-> radius,
     Xmin |-> center[1] - radius, Xmax |-> center[1] + radius,
     Ymin |-> center[2] - radius, Ymax |-> center[2] + radius,
     Zmin |-> center[3] - radius, Zmax |-> center[3] + radius]

\* Disc::Disc, Disc::CalcBoundingBox
Disc(center, normal, radius) ==
    [type |-> DISC, Center |-> center, Normal |-> normal, Radius |-> radius,
     Xmin |-> center[1] - radius, Xmax |-> center[1] + radius,
     Ymin |-> center[2] - radius, Ymax |-> center[2] + radius,
     Zmin |-> center[3] - radius, Zmax |-> center[3] + radius]

\* Triangle::Triangle, Triangle::CalcBoundingBox
Triangle(v0, v1, v2) ==
    [type |-> TRIANGLE, Vert |-> <<v0, v1, v2>>,
     Xmin |-> Min(v0[1], Min(v1[1], v2[1])), Xmax |-> Max(v0[1], Max(v1[1], v2[1])),
     Ymin |-> Min(v0[2], Min(v1[2], v2[2])), Ymax |-> Max(v0[2], Max(v1[2], v2[2])),
     Zmin |-> Min(v0[3], Min(v1[3], v2[3])), Zmax |-> Max(v0[3], Max(v1[3], v2[3]))]

\* Cone::Cone for an axis along z with center2 above center1 and equal radii (the
\* cones of scenes.cpp): AxisLen, UnitAxis and DotAxC1 are then integers, and CosB
\* is 0 by the first branch (fabs(Radius1 - Radius2) < 1.0e-7)
Cone(center1, center2, radius1, radius2) ==
    LET axisLen == center2[3] - center1[3]
        unitAxis == <<0, 0, 1>>
    IN [type |-> CONE, Center1 |-> center1, Center2 |-> center2,
        Radius1 |-> radius1, Radius2 |-> radius2,
        UnitAxis |-> unitAxis, AxisLen |-> axisLen,
        WidthCoeff |-> (radius2 - radius1) \div axisLen,
        CosB |-> 0,
        DotAxC1 |-> unitAxis[1] * center1[1] + unitAxis[2] * center1[2]
                      + unitAxis[3] * center1[3],
        Xmin |-> Min(center1[1] - radius1, center2[1] - radius2),
        Xmax |-> Max(center1[1] + radius1, center2[1] + radius2),
        Ymin |-> Min(center1[2] - radius1, center2[2] - radius2),
        Ymax |-> Max(center1[2] + radius1, center2[2] + radius2),
        Zmin |-> Min(center1[3] - radius1, center2[3] - radius2),
        Zmax |-> Max(center1[3] + radius1, center2[3] + radius2)]

\* The primitives a caller may hand over, one of each variant: a sphere away from
\* the origin, a disc whose box dominates the others, a triangle in the plane z = 0
\* (a box of zero volume, longest along y), a cone longest along z.
PrimitiveUniverse ==
    { Sphere(<<3, 0, 0>>, 1),
      Disc(<<0, 0, 0>>, <<0, 0, 1>>, 4),
      Triangle(<<0, 0, 0>>, <<1, 2, 0>>, <<0, 4, 0>>),
      Cone(<<0, 0, 1>>, <<0, 0, 3>>, 1, 1) }

\* PushVector (core.cpp)
PushVector(v) == <<FloatBits(v[1]), FloatBits(v[2]), FloatBits(v[3])>>

\* Sphere::StoreDataIntoBVH
SphereStoreDataIntoBVH(p) == PushVector(p.Center) \o <<FloatBits(p.Radius)>>

\* Disc::StoreDataIntoBVH
DiscStoreDataIntoBVH(p) ==
    PushVector(p.Center) \o <<FloatBits(p.Radius)>>
      \o PushVector(p.Normal) \o <<FloatBits(RGBA_PAD)>>

\* Triangle::StoreDataIntoBVH
TriangleStoreDataIntoBVH(p) ==
    PushVector(p.Vert[1]) \o <<FloatBits(RGBA_PAD)>>
      \o PushVector(p.Vert[2]) \o <<FloatBits(RGBA_PAD)>>
      \o PushVector(p.Vert[3]) \o <<FloatBits(RGBA_PAD)>>

\* Cone::StoreDataIntoBVH
ConeStoreDataIntoBVH(p) ==
    PushVector(p.Center1) \o <<FloatBits(p.Radius1)>>
      \o PushVector(p.Center2) \o <<FloatBits(p.Radius2)>>
      \o PushVector(p.UnitAxis) \o <<FloatBits(p.AxisLen)>>
      \o <<FloatBits(p.WidthCoeff), FloatBits(p.CosB), FloatBits(p.DotAxC1),
           FloatBits(RGBA_PAD)>>

\* the virtual call Primitive::StoreDataIntoBVH
StoreDataIntoBVH(p) ==
    CASE p.type = SPHERE -> SphereStoreDataIntoBVH(p)
      [] p.type = DISC -> DiscStoreDataIntoBVH(p)
      [] p.type = TRIANGLE -> TriangleStoreDataIntoBVH(p)
      [] p.type = CONE -> ConeStoreDataIntoBVH(p)

\* StoreIntoBVH that appends the bare tag, without the three pads after it
StoreIntoBVH_BareTag(p) == <<UIntBits(p.type)>> \o StoreDataIntoBVH(p)

\* Primitive::StoreIntoBVH: the type tag quad, then the payload
StoreIntoBVH(p) ==
    <<UIntBits(p.type), FloatBits(RGBA_PAD), FloatBits(RGBA_PAD), FloatBits(RGBA_PAD)>>
      \o StoreDataIntoBVH(p)

\* ------------------------------------------------------------------ state

VARIABLES
    scene,                 \* the caller's primitive objects, by handle (Primitive*)
    deleted,               \* the handles whose objects the caller has deleted
    primitives,            \* the caller's std::vector<Primitive*>
    maxNumLevels,          \* argument of the constructor
    minPrimitivesPerNode,  \* argument of the constructor
    nodes,                 \* the BoundingBox objects, by allocation order; Root is 1
    stack,                 \* pending Subdivide calls, the next one first
    compiledTree,          \* Primitive::Data, the buffer Compile appends to
    cstack,                \* active CompileFrom calls, the innermost first
    emitted,               \* history: where CompileFrom put each node and primitive
    pos,                   \* the decoder's cursor (index into compiledTree, from 0)
    printed,               \* what the decoder wrote to the stream, one entry per node
    pc                     \* where the caller is

vars == <<scene, deleted, primitives, maxNumLevels, minPrimitivesPerNode, nodes, stack,
          compiledTree, cstack, emitted, pos, printed, pc>>

\* Root.get()
Root == 1

\* new BoundingBox(): value-initialised, no children, no primitives
NewBoundingBox ==
    [xmin |-> 0, xmax |-> 0, ymin |-> 0, ymax |-> 0, zmin |-> 0, zmax |-> 0,
     lower |-> 0, higher |-> 0, primitives |-> <<>>]

\* sequences of at most n elements of S
SeqUpTo(S, n) == UNION { [1..k -> S] : k \in 0..n }

Init ==
    /\ scene \in SeqUpTo(PrimitiveUniverse, MaxPrims)
    /\ deleted = {}
    /\ primitives = [i \in 1..Len(scene) |-> i]
    /\ maxNumLevels \in 1..MaxLevels
    /\ minPrimitivesPerNode \in 1..MaxMinPrims
    /\ nodes = <<>>
    /\ stack = <<>>
    /\ compiledTree = <<>>
    /\ cstack = <<>>
    /\ emitted = <<>>
    /\ pos = 0
    /\ printed = <<>>
    /\ pc = "start"

\* ---------------------------------------------------------------- builder

\* the call Subdivide(node, primitives, from, to, currentLevel, ...)
SubdivideCall(node, from, to, currentLevel) ==
    [node |-> node, from |-> from, to |-> to, currentLevel |-> currentLevel]

\* BoundingVolumesHierarchy(primitives, maxNumLevels, minPrimitivesPerNode)
Construct ==
    /\ pc = "start"
    /\ nodes' = <<NewBoundingBox>>
    /\ stack' = <<SubdivideCall(Root, 0, Len(primitives), 0)>>
    /\ pc' = "build"
    /\ UNCHANGED <<scene, deleted, primitives, maxNumLevels, minPrimitivesPerNode,
                   compiledTree, cstack, emitted, pos, printed>>

RECURSIVE BoxLoop_MaxNotWidened(_, _, _, _)
\* BoxLoop with the comparisons of the max fields turned round
BoxLoop_MaxNotWidened(prims, i, to, b) ==
    IF i >= to THEN b
    ELSE LET p == scene[prims[i + 1]]
         IN BoxLoop_MaxNotWidened(prims, i + 1, to,
                    [xmin |-> IF p.Xmin < b.xmin THEN p.Xmin ELSE b.xmin,
                     xmax |-> IF p.Xmax < b.xmax THEN p.Xmax ELSE b.xmax,
                     ymin |-> IF p.Ymin < b.ymin THEN p.Ymin ELSE b.ymin,
                     ymax |-> IF p.Ymax < b.ymax THEN p.Ymax ELSE b.ymax,
                     zmin |-> IF p.Zmin < b.zmin THEN p.Zmin ELSE b.zmin,
                     zmax |-> IF p.Zmax < b.zmax THEN p.Zmax ELSE b.zmax])

RECURSIVE BoxLoop(_, _, _, _)
\* the loop over i in [from, to) that widens the box by primitives[i]
BoxLoop(prims, i, to, b) ==
    IF i >= to THEN b
    ELSE LET p == scene[prims[i + 1]]
         IN BoxLoop(prims, i + 1, to,
                    [xmin |-> IF p.Xmin < b.xmin THEN p.Xmin ELSE b.xmin,
                     xmax |-> IF p.Xmax > b.xmax THEN p.Xmax ELSE b.xmax,
                     ymin |-> IF p.Ymin < b.ymin THEN p.Ymin ELSE b.ymin,
                     ymax |-> IF p.Ymax > b.ymax THEN p.Ymax ELSE b.ymax,
                     zmin |-> IF p.Zmin < b.zmin THEN p.Zmin ELSE b.zmin,
                     zmax |-> IF p.Zmax > b.zmax THEN p.Zmax ELSE b.zmax])

\* RangeBox with the box started at 0 instead of at +-99.0e+29f
RangeBox_ZeroStart(prims, from, to) ==
    BoxLoop(prims, from, to,
            [xmin |-> 0, xmax |-> 0, ymin |-> 0, ymax |-> 0, zmin |-> 0, zmax |-> 0])

\* bounding box of all primitives from the range [from, to)
RangeBox(prims, from, to) ==
    BoxLoop(prims, from, to,
            [xmin |-> HUGE, xmax |-> -HUGE, ymin |-> HUGE, ymax |-> -HUGE,
             zmin |-> HUGE, zmax |-> -HUGE])

\* IsLeafRange without the limit on the depth
IsLeafRange_NoLevelLimit(from, to, currentLevel) ==
    to - from <= minPrimitivesPerNode

\* IsLeafRange that lets the tree grow one level more
IsLeafRange_OneLevelMore(from, to, currentLevel) ==
    to - from <= minPrimitivesPerNode \/ currentLevel = maxNumLevels

\* the test that ends the recursion in a leaf
IsLeafRange(from, to, currentLevel) ==
    to - from <= minPrimitivesPerNode \/ currentLevel = maxNumLevels - 1

\* float xrange = xmaxall - xminall: a float subtraction
Span(minall, maxall) == Fl32(maxall - minall)

\* SplitAxis that tries y before x
SplitAxis_YFirst(b) ==
    LET xrange == Span(b.xmin, b.xmax)
        yrange == Span(b.ymin, b.ymax)
        zrange == Span(b.zmin, b.zmax)
    IN IF yrange >= xrange /\ yrange >= zrange THEN "y"
       ELSE IF xrange >= yrange /\ xrange >= zrange THEN "x"
       ELSE IF zrange >= xrange /\ zrange >= yrange THEN "z"
       ELSE "none"

\* the if / else-if chain that picks the axis to sort along
SplitAxis(b) ==
    LET xrange == Span(b.xmin, b.xmax)
        yrange == Span(b.ymin, b.ymax)
        zrange == Span(b.zmin, b.zmax)
    IN IF xrange >= yrange /\ xrange >= zrange THEN "x"
       ELSE IF yrange >= xrange /\ yrange >= zrange THEN "y"
       ELSE IF zrange >= xrange /\ zrange >= yrange THEN "z"
       ELSE "none"

\* twice the centre of primitive p on an axis: GetXmin() + GetXmax(), a float
\* addition (the halving is exact)
Center2(p, axis) ==
    CASE axis = "x" -> Fl32(p.Xmin + p.Xmax)
      [] axis = "y" -> Fl32(p.Ymin + p.Ymax)
      [] axis = "z" -> Fl32(p.Zmin + p.Zmax)

\* twice the middle of the range box on an axis: 2 * (xminall + 0.5 * xrange), with
\* the float xrange; the halving and the addition are done in double and are exact
Middle2(b, axis) ==
    CASE axis = "x" -> 2 * b.xmin + Span(b.xmin, b.xmax)
      [] axis = "y" -> 2 * b.ymin + Span(b.ymin, b.ymax)
      [] axis = "z" -> 2 * b.zmin + Span(b.zmin, b.zmax)

\* SortOutcomes with the comparison turned round: descending centres
SortOutcomes_Descending(prims, from, to, axis) ==
    LET k == to - from
        range == { prims[i] : i \in (from + 1)..to }
    IN { [i \in 1..Len(prims) |->
            IF i > from /\ i <= to THEN s[i - from] ELSE prims[i]] :
         s \in { t \in [1..k -> range] :
                   /\ \A i, j \in 1..k : i # j => t[i] # t[j]
                   /\ \A i \in 1..(k - 1) :
                        Center2(scene[t[i]], axis) >= Center2(scene[t[i + 1]], axis) } }

\* what std::sort may leave in [from, to): any arrangement of the same handles in
\* which no element's centre is below that of an element before it (the order of
\* elements with equal centres is unspecified)
SortOutcomes(prims, from, to, axis) ==
    LET k == to - from
        range == { prims[i] : i \in (from + 1)..to }
    IN { [i \in 1..Len(prims) |->
            IF i > from /\ i <= to THEN s[i - from] ELSE prims[i]] :
         s \in { t \in [1..k -> range] :
                   /\ \A i, j \in 1..k : i # j => t[i] # t[j]
                   /\ \A i \in 1..(k - 1) :
                        Center2(scene[t[i]], axis) <= Center2(scene[t[i + 1]], axis) } }

RECURSIVE Walk(_, _, _, _, _)
RECURSIVE Walk_StopsAtMiddle(_, _, _, _, _)
\* Walk that stops at a centre equal to the middle of the box
Walk_StopsAtMiddle(prims, subdivisionIndex, to, axis, middle2) ==
    IF subdivisionIndex < to
         /\ Center2(scene[prims[subdivisionIndex + 1]], axis) < middle2
    THEN Walk_StopsAtMiddle(prims, subdivisionIndex + 1, to, axis, middle2)
    ELSE subdivisionIndex

\* the while loop: the first index whose centre is above the middle of the box
Walk(prims, subdivisionIndex, to, axis, middle2) ==
    IF subdivisionIndex < to
         /\ Center2(scene[prims[subdivisionIndex + 1]], axis) <= middle2
    THEN Walk(prims, subdivisionIndex + 1, to, axis, middle2)
    ELSE subdivisionIndex

\* DegenerateGuard that leaves ranges of three alone as well
DegenerateGuard_MoreThanThree(from, to, subdivisionIndex) ==
    IF to - from > 3
    THEN IF subdivisionIndex = from THEN subdivisionIndex + 1
         ELSE IF subdivisionIndex = to THEN subdivisionIndex - 1
         ELSE subdivisionIndex
    ELSE subdivisionIndex

\* the guard against a split that leaves one side empty
DegenerateGuard(from, to, subdivisionIndex) ==
    IF to - from > 2
    THEN IF subdivisionIndex = from THEN subdivisionIndex + 1
         ELSE IF subdivisionIndex = to THEN subdivisionIndex - 1
         ELSE subdivisionIndex
    ELSE subdivisionIndex

\* node->xmin = xminall; ...
WithBox(n, b) ==
    [n EXCEPT !.xmin = b.xmin, !.xmax = b.xmax, !.ymin = b.ymin, !.ymax = b.ymax,
              !.zmin = b.zmin, !.zmax = b.zmax]

\* LeafPrimitives that stops one short of the end of the range
LeafPrimitives_DropLast(prims, from, to) == SubSeq(prims, from + 1, to - 1)

\* LeafPrimitives that counts from the start of the sequence
LeafPrimitives_FromStart(prims, from, to) == SubSeq(prims, 1, to - from)

\* the primitives a leaf takes: push_back of each of [from, to)
LeafPrimitives(prims, from, to) == SubSeq(prims, from + 1, to)

\* the two recursive calls, the lower one first
Recurse(c, lower, higher, subdivisionIndex) ==
    << SubdivideCall(lower, c.from, subdivisionIndex, c.currentLevel + 1),
       SubdivideCall(higher, subdivisionIndex, c.to, c.currentLevel + 1) >>

\* the BoundingBox objects the heap has room for: more than a tree of MaxLevels
\* levels holds, so the builder never runs against it
MaxNodes == Pow2Rec(MaxLevels + 2)

\* one call of Subdivide, up to its two recursive calls
Subdivide ==
    /\ pc = "build"
    /\ stack # <<>>
    /\ IsLeafRange(Head(stack).from, Head(stack).to, Head(stack).currentLevel)
         \/ Len(nodes) + 2 <= MaxNodes
    /\ LET c == Head(stack)
           b == RangeBox(primitives, c.from, c.to)
           axis == SplitAxis(b)
       IN IF IsLeafRange(c.from, c.to, c.currentLevel)
          THEN /\ nodes' = [nodes EXCEPT ![c.node] =
                              [WithBox(@, b) EXCEPT !.primitives =
                                  @ \o LeafPrimitives(primitives, c.from, c.to)]]
               /\ primitives' = primitives
               /\ stack' = Tail(stack)
               /\ pc' = IF Tail(stack) = <<>> THEN "built" ELSE "build"
          ELSE \E sorted \in (IF axis = "none" THEN {primitives}
                              ELSE SortOutcomes(primitives, c.from, c.to, axis)) :
                 LET candidate == IF axis = "none" THEN c.from
                                  ELSE Walk(sorted, c.from, c.to, axis, Middle2(b, axis))
                     subdivisionIndex == DegenerateGuard(c.from, c.to, candidate)
                     higher == Len(nodes) + 1
                     lower == Len(nodes) + 2
                 IN /\ primitives' = sorted
                    /\ nodes' = [nodes EXCEPT ![c.node] =
                                    [WithBox(@, b) EXCEPT !.higher = higher,
                                                          !.lower = lower]]
                                  \o <<NewBoundingBox, NewBoundingBox>>
                    /\ stack' = Recurse(c, lower, higher, subdivisionIndex) \o Tail(stack)
                    /\ pc' = "build"
    /\ UNCHANGED <<scene, deleted, maxNumLevels, minPrimitivesPerNode,
                   compiledTree, cstack, emitted, pos, printed>>

\* --------------------------------------------------------------- compiler

\* the call CompileFrom(node, compiledTree, parentAddr, isLower); phase is how far the
\* call has got: "enter", "lower" (inside the call for the lower child), "higher"
CompileFromCall(node, parentAddr, isLower) ==
    [node |-> node, parentAddr |-> parentAddr, isLower |-> isLower, phase |-> "enter",
     nodeAddr |-> 0, higherAddrLoc |-> 0]

\* Compile that empties the buffer before it appends to it
Compile_ClearsBuffer ==
    /\ pc = "built"
    /\ cstack' = <<CompileFromCall(Root, 0, FALSE)>>
    /\ compiledTree' = <<>>
    /\ pc' = "compile"
    /\ UNCHANGED <<scene, deleted, primitives, maxNumLevels, minPrimitivesPerNode, nodes, stack,
                   emitted, pos, printed>>

\* Compile(compiledTree): CompileFrom(*Root.get(), compiledTree, 0, false)
Compile ==
    /\ pc = "built"
    /\ cstack' = <<CompileFromCall(Root, 0, FALSE)>>
    /\ pc' = "compile"
    /\ UNCHANGED <<scene, deleted, primitives, maxNumLevels, minPrimitivesPerNode, nodes, stack,
                   compiledTree, emitted, pos, printed>>

\* NodeFlags that takes every call with isLower = false for the call on the root
NodeFlags_RootWhenNotLower(node, isLower) ==
    IF isLower THEN SetBit(UIntBits(0), IS_LOWER) ELSE SetBit(UIntBits(0), IS_ROOT)

\* NodeFlags that sets IS_LOWER on the root too
NodeFlags_LowerOnRoot(node, isLower) ==
    LET flags == IF isLower \/ node = Root THEN SetBit(UIntBits(0), IS_LOWER)
                 ELSE UIntBits(0)
    IN IF node = Root THEN SetBit(flags, IS_ROOT) ELSE flags

\* uint32_t flags = (isLower ? IS_LOWER : 0); if (&node == Root.get()) flags |= IS_ROOT;
NodeFlags(node, isLower) ==
    LET flags == IF isLower THEN SetBit(UIntBits(0), IS_LOWER) ELSE UIntBits(0)
    IN IF node = Root THEN SetBit(flags, IS_ROOT) ELSE flags

\* PushElements of the two box quads
BoxQuads(n) ==
    << FloatBits(n.xmin), FloatBits(n.ymin), FloatBits(n.zmin), FloatBits(RGBA_PAD),
       FloatBits(n.xmax), FloatBits(n.ymax), FloatBits(n.zmax), FloatBits(RGBA_PAD) >>

\* the info quad of an internal node as first pushed: flags, two placeholders, parentAddr
InternalInfoQuad(node, c) ==
    << NodeFlags(node, c.isLower), FloatBits(0), FloatBits(0), UIntBits(c.parentAddr) >>

\* LeafInfoQuad that leaves the LEAF bit out
LeafInfoQuad_NoLeafBit(node, n, c) ==
    << Word(NodeFlags(node, c.isLower).top, Len(n.primitives)),
       FloatBits(RGBA_PAD), FloatBits(RGBA_PAD), UIntBits(c.parentAddr) >>

\* LeafInfoQuad that counts one primitive too few
LeafInfoQuad_CountLessOne(node, n, c) ==
    << Word(NodeFlags(node, c.isLower).top \cup {LEAF}, Len(n.primitives) - 1),
       FloatBits(RGBA_PAD), FloatBits(RGBA_PAD), UIntBits(c.parentAddr) >>

\* the info quad of a leaf: flags | LEAF | primitives.size(), no children addresses, parentAddr
LeafInfoQuad(node, n, c) ==
    << Word(NodeFlags(node, c.isLower).top \cup {LEAF}, Len(n.primitives)),
       FloatBits(RGBA_PAD), FloatBits(RGBA_PAD), UIntBits(c.parentAddr) >>

RECURSIVE StoreAll(_, _)
\* for (Primitive *p: node.primitives) p->StoreIntoBVH(compiledTree), with the history
\* of where each primitive went; r = [buf, log]
StoreAll(ps, r) ==
    IF ps = <<>> THEN r
    ELSE StoreAll(Tail(ps),
                  [buf |-> r.buf \o StoreIntoBVH(scene[Head(ps)]),
                   log |-> Append(r.log, [kind |-> "prim", id |-> Head(ps),
                                           at |-> Len(r.buf)])])

\* ChildParentAddr that hands on the address the node was given
ChildParentAddr_Inherited(nodeAddr, parentAddr) == parentAddr

\* the parent address a node hands to its children: its own address
ChildParentAddr(nodeAddr, parentAddr) == nodeAddr

\* NextQuadAddr that is one quad ahead
NextQuadAddr_OneAhead(buf) == (Len(buf) + RGBA_ELEMS) \div RGBA_ELEMS

\* NextQuadAddr in elements instead of quads
NextQuadAddr_InElements(buf) == Len(buf)

\* the address written over a placeholder: the quad index where the buffer now ends
NextQuadAddr(buf) == Len(buf) \div RGBA_ELEMS

\* what reading a node through a null reference can do
NullDereference == {"compile_crashed", "compile_undefined"}

\* CompileFrom from its entry up to the call for the lower child (an internal node)
\* or up to its return (a leaf)
CompileFrom ==
    /\ pc = "compile"
    /\ cstack # <<>>
    /\ Head(cstack).phase = "enter"
    /\ LET c == Head(cstack)
       IN IF c.node = 0
          THEN /\ pc' \in NullDereference
               /\ UNCHANGED <<cstack, compiledTree, emitted>>
          ELSE LET n == nodes[c.node]
                   nodeAddr == NextQuadAddr(compiledTree)
                   boxed == compiledTree \o BoxQuads(n)
                   here == [kind |-> "node", id |-> c.node, at |-> Len(compiledTree)]
               IN IF n.primitives = <<>>
                  THEN LET lowerAddrLoc == Len(boxed) + 1
                           higherAddrLoc == Len(boxed) + 2
                           pushed == boxed \o InternalInfoQuad(c.node, c)
                           lowerAddr == NextQuadAddr(pushed)
                       IN /\ compiledTree' =
                               [pushed EXCEPT ![lowerAddrLoc + 1] = UIntBits(lowerAddr)]
                          /\ cstack' =
                               << CompileFromCall(n.lower,
                                                  ChildParentAddr(nodeAddr, c.parentAddr),
                                                  TRUE),
                                  [c EXCEPT !.phase = "lower", !.nodeAddr = nodeAddr,
                                            !.higherAddrLoc = higherAddrLoc] >>
                               \o Tail(cstack)
                          /\ emitted' = Append(emitted, here)
                          /\ pc' = "compile"
                  ELSE LET r == StoreAll(n.primitives,
                                         [buf |-> boxed \o LeafInfoQuad(c.node, n, c),
                                          log |-> Append(emitted, here)])
                       IN /\ compiledTree' = r.buf
                          /\ emitted' = r.log
                          /\ cstack' = Tail(cstack)
                          /\ pc' = IF Tail(cstack) = <<>> THEN "compiled" ELSE "compile"
    /\ UNCHANGED <<scene, deleted, primitives, maxNumLevels, minPrimitivesPerNode, nodes, stack,
                   pos, printed>>

\* CompileFromHigher that writes the address one slot further on
CompileFromHigher_PatchesNextSlot ==
    /\ pc = "compile"
    /\ cstack # <<>>
    /\ Head(cstack).phase = "lower"
    /\ LET c == Head(cstack)
           higherAddr == NextQuadAddr(compiledTree)
       IN /\ compiledTree' =
               [compiledTree EXCEPT ![c.higherAddrLoc + 2] = UIntBits(higherAddr)]
          /\ cstack' =
               << CompileFromCall(nodes[c.node].higher,
                                  ChildParentAddr(c.nodeAddr, c.parentAddr), FALSE),
                  [c EXCEPT !.phase = "higher"] >>
               \o Tail(cstack)
    /\ UNCHANGED <<scene, deleted, primitives, maxNumLevels, minPrimitivesPerNode, nodes,
                   stack, emitted, pos, printed, pc>>

\* CompileFromHigher that makes its call for the lower child a second time
CompileFromHigher_LowerAgain ==
    /\ pc = "compile"
    /\ cstack # <<>>
    /\ Head(cstack).phase = "lower"
    /\ LET c == Head(cstack)
           higherAddr == NextQuadAddr(compiledTree)
       IN /\ compiledTree' =
               [compiledTree EXCEPT ![c.higherAddrLoc + 1] = UIntBits(higherAddr)]
          /\ cstack' =
               << CompileFromCall(nodes[c.node].lower,
                                  ChildParentAddr(c.nodeAddr, c.parentAddr), FALSE),
                  [c EXCEPT !.phase = "higher"] >>
               \o Tail(cstack)
    /\ UNCHANGED <<scene, deleted, primitives, maxNumLevels, minPrimitivesPerNode, nodes,
                   stack, emitted, pos, printed, pc>>

\* CompileFrom between the return of the call for the lower child and the call for
\* the higher child
CompileFromHigher ==
    /\ pc = "compile"
    /\ cstack # <<>>
    /\ Head(cstack).phase = "lower"
    /\ LET c == Head(cstack)
           higherAddr == NextQuadAddr(compiledTree)
       IN /\ compiledTree' =
               [compiledTree EXCEPT ![c.higherAddrLoc + 1] = UIntBits(higherAddr)]
          /\ cstack' =
               << CompileFromCall(nodes[c.node].higher,
                                  ChildParentAddr(c.nodeAddr, c.parentAddr), FALSE),
                  [c EXCEPT !.phase = "higher"] >>
               \o Tail(cstack)
    /\ UNCHANGED <<scene, deleted, primitives, maxNumLevels, minPrimitivesPerNode, nodes, stack,
                   emitted, pos, printed, pc>>

\* the return of CompileFrom for an internal node
CompileFromReturn ==
    /\ pc = "compile"
    /\ cstack # <<>>
    /\ Head(cstack).phase = "higher"
    /\ cstack' = Tail(cstack)
    /\ pc' = IF Tail(cstack) = <<>> THEN "compiled" ELSE "compile"
    /\ UNCHANGED <<scene, deleted, primitives, maxNumLevels, minPrimitivesPerNode, nodes, stack,
                   compiledTree, emitted, pos, printed>>

\* ---------------------------------------------------------------- decoder

\* *pos for the element with index i (from 0); an index at or past the end is an
\* out-of-bounds read, which the caller accounts for, and yields no defined value
Rd(buf, i) == IF i < Len(buf) THEN buf[i + 1] ELSE Word({}, 0)

\* os << *it: the float in element i
Fl(buf, i) == FloatOf(Rd(buf, i))

\* three floats from element i on
Vec(buf, i) == <<Fl(buf, i), Fl(buf, i + 1), Fl(buf, i + 2)>>

\* Sphere::PrintBVH
SpherePrintBVH(buf, it) ==
    [it |-> it + 4,
     fields |-> [Center |-> Vec(buf, it), Radius |-> Fl(buf, it + 3)]]

\* Disc::PrintBVH
DiscPrintBVH(buf, it) ==
    [it |-> it + 8,
     fields |-> [Center |-> Vec(buf, it), Radius |-> Fl(buf, it + 3),
                 Normal |-> Vec(buf, it + 4)]]

\* Triangle::PrintBVH
TrianglePrintBVH(buf, it) ==
    [it |-> it + 12,
     fields |-> [Vert |-> <<Vec(buf, it), Vec(buf, it + 4), Vec(buf, it + 8)>>]]

\* Cone::PrintBVH
ConePrintBVH(buf, it) ==
    [it |-> it + 20,
     fields |-> [Center1 |-> Vec(buf, it), Center2 |-> Vec(buf, it + 4),
                 UnitAxis |-> Vec(buf, it + 8),
                 Radius1 |-> Fl(buf, it + 12), Radius2 |-> Fl(buf, it + 13),
                 AxisLen |-> Fl(buf, it + 14), WidthCoeff |-> Fl(buf, it + 15),
                 CosB |-> Fl(buf, it + 16), DotAxC1 |-> Fl(buf, it + 17)]]

\* switch (ptype): the four cases, and no case for any other value
PrintBVH(ptype, buf, it) ==
    CASE ptype = UIntBits(SPHERE) -> SpherePrintBVH(buf, it)
      [] ptype = UIntBits(DISC) -> DiscPrintBVH(buf, it)
      [] ptype = UIntBits(TRIANGLE) -> TrianglePrintBVH(buf, it)
      [] ptype = UIntBits(CONE) -> ConePrintBVH(buf, it)
      [] OTHER -> [it |-> it, fields |-> [none |-> TRUE]]

RECURSIVE PrintPrimitives(_, _, _, _)
\* the loop for (i = 0; i < numPrimitives; i++) from cursor p; r = [pos, prims, ub].
\* It is followed only as far as the cursor stays inside the buffer.
PrintPrimitives(buf, p, numLeft, prims) ==
    IF numLeft = 0 THEN [pos |-> p, prims |-> prims, ub |-> FALSE]
    ELSE IF p >= Len(buf) THEN [pos |-> p, prims |-> prims, ub |-> TRUE]
    ELSE LET ptype == Rd(buf, p)
             d == PrintBVH(ptype, buf, p + 4)
         IN IF d.it > Len(buf) THEN [pos |-> d.it, prims |-> prims, ub |-> TRUE]
            ELSE PrintPrimitives(buf, d.it, numLeft - 1,
                                 Append(prims, [ptype |-> ptype, at |-> p,
                                                next |-> d.it, fields |-> d.fields]))

\* one iteration of the while loop of the decoder, from cursor p; r = [pos, entry, ub]
PrintNode(buf, p) ==
    LET flags == Rd(buf, p + 8)
        box == [xmin |-> Fl(buf, p), ymin |-> Fl(buf, p + 1), zmin |-> Fl(buf, p + 2),
                xmax |-> Fl(buf, p + 4), ymax |-> Fl(buf, p + 5), zmax |-> Fl(buf, p + 6)]
        entry == [at |-> p \div RGBA_ELEMS, box |-> box, flags |-> flags,
                  lowerAddr |-> Rd(buf, p + 9), higherAddr |-> Rd(buf, p + 10),
                  parentAddr |-> Rd(buf, p + 11), prims |-> <<>>]
    IN IF p + 12 > Len(buf) THEN [pos |-> p + 12, entry |-> entry, ub |-> TRUE]
       ELSE IF HasBit(flags, LEAF)
            THEN LET r == PrintPrimitives(buf, p + 12, LowBits(flags), <<>>)
                 IN [pos |-> r.pos, entry |-> [entry EXCEPT !.prims = r.prims],
                     ub |-> r.ub]
            ELSE [pos |-> p + 12, entry |-> entry, ub |-> FALSE]

\* what moving or reading the cursor past the end of the buffer can do
OutOfBounds == {"print_crashed", "print_undefined"}

\* the call of the decoder on the compiled buffer: auto pos = compiledTree.begin()
BVHPrint ==
    /\ pc = "compiled"
    /\ pos' = 0
    /\ pc' = "print"
    /\ UNCHANGED <<scene, deleted, primitives, maxNumLevels, minPrimitivesPerNode, nodes, stack,
                   compiledTree, cstack, emitted, printed>>

\* one iteration of while (pos != compiledTree.end())
PrintLoop ==
    /\ pc = "print"
    /\ pos # Len(compiledTree)
    /\ LET r == PrintNode(compiledTree, pos)
       IN IF r.ub
          THEN /\ pc' \in OutOfBounds
               /\ UNCHANGED <<pos, printed>>
          ELSE /\ pos' = r.pos
               /\ printed' = Append(printed, r.entry)
               /\ pc' = "print"
    /\ UNCHANGED <<scene, deleted, primitives, maxNumLevels, minPrimitivesPerNode, nodes, stack,
                   compiledTree, cstack, emitted>>

\* the loop ends: pos == compiledTree.end()
PrintReturn ==
    /\ pc = "print"
    /\ pos = Len(compiledTree)
    /\ pc' = "printed"
    /\ UNCHANGED <<scene, deleted, primitives, maxNumLevels, minPrimitivesPerNode, nodes, stack,
                   compiledTree, cstack, emitted, pos, printed>>

\* ------------------------------------------------------------- the caller

\* Renderer::SetPrimitives from the return of Compile to its own return: the local
\* compiledTree has gone into BVH.buf; BVH.tree, a member of the renderer, stays
SetPrimitivesReturn ==
    /\ pc \in {"compiled", "printed"}
    /\ pc' = "returned"
    /\ UNCHANGED <<scene, deleted, primitives, maxNumLevels, minPrimitivesPerNode, nodes,
                   stack, compiledTree, cstack, emitted, pos, printed>>

\* the caller after SetPrimitives: for (auto *p: primitives) delete p;
DeletePrimitives ==
    /\ pc = "returned"
    /\ deleted' = {primitives[k] : k \in 1..Len(primitives)}
    /\ pc' = "deleted"
    /\ UNCHANGED <<scene, primitives, maxNumLevels, minPrimitivesPerNode, nodes, stack,
                   compiledTree, cstack, emitted, pos, printed>>

Next ==
    \/ Construct
    \/ Subdivide
    \/ Compile
    \/ CompileFrom
    \/ CompileFromHigher
    \/ CompileFromReturn
    \/ BVHPrint
    \/ PrintLoop
    \/ PrintReturn
    \/ SetPrimitivesReturn
    \/ DeletePrimitives

Spec == Init /\ [][Next]_vars

\* a caller that breaks the contract: BoundingVolumesHierarchy(primitives, 0, ...).
\* The constructor stores the 0 as it is; maxNumLevels - 1 in Subdivide is then
\* 2^32 - 1 (unsigned), a level no call reaches, as little as it reaches the -1
\* here: only the size of a range ends the recursion, and where no split makes a
\* range smaller it goes on until MaxNodes objects are allocated
InitZeroLevels ==
    /\ scene \in SeqUpTo(PrimitiveUniverse, MaxPrims)
    /\ deleted = {}
    /\ primitives = [i \in 1..Len(scene) |-> i]
    /\ maxNumLevels = 0
    /\ minPrimitivesPerNode \in 1..MaxMinPrims
    /\ nodes = <<>>
    /\ stack = <<>>
    /\ compiledTree = <<>>
    /\ cstack = <<>>
    /\ emitted = <<>>
    /\ pos = 0
    /\ printed = <<>>
    /\ pc = "start"

SpecZeroLevels == InitZeroLevels /\ [][Next]_vars

\* a quad some caller appended to the buffer before it calls Compile
CallerQuad == <<FloatBits(1), FloatBits(1), FloatBits(1), FloatBits(1)>>

\* k whole quads of the caller
CallerQuads(k) == [i \in 1..(k * RGBA_ELEMS) |-> CallerQuad[((i - 1) % RGBA_ELEMS) + 1]]

\* a caller that hands Compile a buffer which already holds 1..MaxOffset quads
\* (Compile 'appends results at the back of compiledTree')
InitOffset ==
    /\ scene \in SeqUpTo(PrimitiveUniverse, MaxPrims)
    /\ deleted = {}
    /\ primitives = [i \in 1..Len(scene) |-> i]
    /\ maxNumLevels \in 1..MaxLevels
    /\ minPrimitivesPerNode \in 1..MaxMinPrims
    /\ nodes = <<>>
    /\ stack = <<>>
    /\ compiledTree \in {CallerQuads(k) : k \in 1..MaxOffset}
    /\ cstack = <<>>
    /\ emitted = <<>>
    /\ pos = 0
    /\ printed = <<>>
    /\ pc = "start"

\* Build and Compile alone: the decoder expects a buffer that starts with a node
NextOffset ==
    \/ Construct
    \/ Subdivide
    \/ Compile
    \/ CompileFrom
    \/ CompileFromHigher
    \/ CompileFromReturn

SpecOffset == InitOffset /\ [][NextOffset]_vars

\* primitives with coordinates where float arithmetic rounds: a triangle from
\* -2^23 to 2^23 + 1 along x (both are floats, their difference 2^24 + 1 is not),
\* a sphere inside its box, and a disc at the origin
RoundingUniverse ==
    { Triangle(<<-Pow2(23), 0, 0>>, <<Pow2(23) + 1, 0, 0>>, <<0, 0, 0>>),
      Sphere(<<3, 0, 0>>, 1),
      Disc(<<0, 0, 0>>, <<0, 0, 1>>, 4) }

\* a caller whose scene is made of these
InitRounding ==
    /\ scene \in SeqUpTo(RoundingUniverse, MaxPrims)
    /\ deleted = {}
    /\ primitives = [i \in 1..Len(scene) |-> i]
    /\ maxNumLevels \in 1..MaxLevels
    /\ minPrimitivesPerNode \in 1..MaxMinPrims
    /\ nodes = <<>>
    /\ stack = <<>>
    /\ compiledTree = <<>>
    /\ cstack = <<>>
    /\ emitted = <<>>
    /\ pos = 0
    /\ printed = <<>>
    /\ pc = "start"

\* Build alone
NextBuild ==
    \/ Construct
    \/ Subdivide

SpecRounding == InitRounding /\ [][NextBuild]_vars

\* ------------------------------------------------------------ properties

\* the constructor has returned
BuildDone == pc \notin {"start", "build"}

\* Compile has returned
CompileDone == pc \in ({"compiled", "print", "printed"} \cup OutOfBounds)

NodeIds == 1..Len(nodes)

IsLeaf(n) == n.primitives # <<>> /\ n.lower = 0 /\ n.higher = 0

IsInternal(n) == n.primitives = <<>> /\ n.lower # 0 /\ n.higher # 0

\* the model's heap bound is never what stops the builder
HeapNeverFull == Len(nodes) <= MaxNodes - 2 \/ pc # "build"

\* C1: every node of the built tree is either a leaf (primitives, no children) or an
\* internal node (no primitives, two children), never both and never neither.
C1_LeafOrInternal ==
    BuildDone => \A i \in NodeIds : IsLeaf(nodes[i]) \/ IsInternal(nodes[i])

\* C2: Build followed by Compile runs to completion on every well-formed input:
\* CompileFrom is never entered for an absent lower or higher child.
C2_CompileNeverFollowsAbsentChild ==
    /\ pc \notin NullDereference
    /\ \A k \in 1..Len(cstack) : cstack[k].node # 0

\* the value os << *it shows for a float field holding v
Shown(v) == [int |-> v]

ShownVec(v) == <<Shown(v[1]), Shown(v[2]), Shown(v[3])>>

\* the fields of primitive p, as a decoder that inverts its StoreDataIntoBVH shows them
FieldsOf(p) ==
    CASE p.type = SPHERE -> [Center |-> ShownVec(p.Center), Radius |-> Shown(p.Radius)]
      [] p.type = DISC -> [Center |-> ShownVec(p.Center), Radius |-> Shown(p.Radius),
                           Normal |-> ShownVec(p.Normal)]
      [] p.type = TRIANGLE -> [Vert |-> <<ShownVec(p.Vert[1]), ShownVec(p.Vert[2]),
                                          ShownVec(p.Vert[3])>>]
      [] p.type = CONE -> [Center1 |-> ShownVec(p.Center1),
                           Center2 |-> ShownVec(p.Center2),
                           UnitAxis |-> ShownVec(p.UnitAxis),
                           Radius1 |-> Shown(p.Radius1), Radius2 |-> Shown(p.Radius2),
                           AxisLen |-> Shown(p.AxisLen),
                           WidthCoeff |-> Shown(p.WidthCoeff),
                           CosB |-> Shown(p.CosB), DotAxC1 |-> Shown(p.DotAxC1)]

\* the primitives CompileFrom stored, in emission order
EmittedPrims == SelectSeq(emitted, LAMBDA e : e.kind = "prim")

RECURSIVE Flatten(_)
Flatten(ss) == IF ss = <<>> THEN <<>> ELSE Head(ss) \o Flatten(Tail(ss))

\* the primitives the decoder showed, in the order it showed them
PrintedPrims == Flatten([k \in 1..Len(printed) |-> printed[k].prims])

\* C3: for each of the four variants the decoder advances its cursor by exactly the
\* number of elements the encoder appended for that variant, and reads each field from
\* the slot where the encoder wrote it: wherever the decoder starts on a primitive
\* record the compiler stored, it ends where that record ends and shows its fields.
C3_DecoderMatchesEncoder ==
    \A k \in 1..Len(PrintedPrims) : \A j \in 1..Len(EmittedPrims) :
        LET d == PrintedPrims[k]
            e == EmittedPrims[j]
            p == scene[e.id]
        IN d.at = e.at =>
             /\ d.next - (d.at + RGBA_ELEMS) = Len(StoreDataIntoBVH(p))
             /\ d.fields = FieldsOf(p)

\* C4: compiling a tree and decoding the buffer yields, for every leaf primitive in
\* emission order, the type tag and the payload values of the original primitive.
C4_RoundTrip ==
    pc \in ({"printed"} \cup OutOfBounds) =>
        /\ pc = "printed"
        /\ Len(PrintedPrims) = Len(EmittedPrims)
        /\ \A k \in 1..Len(PrintedPrims) :
             /\ PrintedPrims[k].ptype = UIntBits(scene[EmittedPrims[k].id].type)
             /\ PrintedPrims[k].fields = FieldsOf(scene[EmittedPrims[k].id])

\* the most Subdivide calls the call c can still amount to, itself included: a full
\* binary tree down to level maxNumLevels - 1
PendingOf(c) ==
    IF c.currentLevel < maxNumLevels THEN Pow2(maxNumLevels - c.currentLevel) - 1 ELSE 0

RECURSIVE SumPending(_)
SumPending(st) == IF st = <<>> THEN 0 ELSE PendingOf(Head(st)) + SumPending(Tail(st))

Pending == SumPending(stack)

\* C5: for a non-empty input, three or more primitives with one centre included, the
\* constructor returns: the chain of nested Subdivide calls is finite.
\* Stated with a variant: the number of Subdivide calls still possible, Pending,
\* is never negative and drops with every call, and the constructor returns when
\* no call is pending.
C5_BuildTerminates ==
    [][(pc = "build" /\ Len(scene) > 0) =>
          /\ Pending' < Pending
          /\ Pending' >= 0
          /\ (pc' = "build" => stack' # <<>>)
          /\ (pc' # "build" => pc' = "built" /\ stack' = <<>>)]_vars

\* the built tree has split a range of three or more primitives whose boxes, and so
\* centres, are all the same
C5_Witness ==
    /\ BuildDone
    /\ Len(scene) >= 3
    /\ \A i \in 1..Len(scene) : scene[i] = scene[1]
    /\ Len(nodes) >= 5

\* box a contains box b on all three axes
Contains(a, b) ==
    /\ a.xmin <= b.xmin /\ b.xmax <= a.xmax
    /\ a.ymin <= b.ymin /\ b.ymax <= a.ymax
    /\ a.zmin <= b.zmin /\ b.zmax <= a.zmax

\* the box of a primitive, in the field names of a node
PrimBox(p) ==
    [xmin |-> p.Xmin, xmax |-> p.Xmax, ymin |-> p.Ymin, ymax |-> p.Ymax,
     zmin |-> p.Zmin, zmax |-> p.Zmax]

\* C6: in the built tree every internal node's box contains both children's boxes and
\* every leaf's box contains the box of each primitive stored in it.
C6_Containment ==
    BuildDone =>
        \A i \in NodeIds :
            LET n == nodes[i]
            IN /\ n.lower # 0 => Contains(n, nodes[n.lower])
               /\ n.higher # 0 => Contains(n, nodes[n.higher])
               /\ \A k \in 1..Len(n.primitives) :
                     Contains(n, PrimBox(scene[n.primitives[k]]))

\* an internal node whose two children are leaves of different boxes
C6_Witness ==
    /\ BuildDone
    /\ \E i \in NodeIds :
          /\ IsInternal(nodes[i])
          /\ IsLeaf(nodes[nodes[i].lower])
          /\ IsLeaf(nodes[nodes[i].higher])
          /\ ~Contains(nodes[nodes[i].lower], nodes[nodes[i].higher])
          /\ ~Contains(nodes[nodes[i].higher], nodes[nodes[i].lower])

RECURSIVE SumLeafCounts(_)
\* the number of primitives stored in nodes 1..k
SumLeafCounts(k) == IF k = 0 THEN 0 ELSE Len(nodes[k].primitives) + SumLeafCounts(k - 1)

\* C7: the primitive counts of all leaves add up to the number of input primitives.
C7_LeafCountConservation == BuildDone => SumLeafCounts(Len(nodes)) = Len(scene)

\* three primitives spread over three leaves
C7_Witness ==
    /\ BuildDone
    /\ Len(scene) = 3
    /\ Cardinality({i \in NodeIds : IsLeaf(nodes[i])}) = 3

\* the smallest and the largest element of a non-empty set of integers
SetMin(S) == CHOOSE m \in S : \A x \in S : m <= x
SetMax(S) == CHOOSE m \in S : \A x \in S : m >= x

\* C8: after Build on a non-empty sequence the root's box is the union of all input
\* boxes: per axis the smallest primitive min and the largest primitive max.
C8_RootBoxIsUnion ==
    (BuildDone /\ Len(scene) > 0) =>
        LET all == {scene[i] : i \in 1..Len(scene)}
        IN /\ nodes[Root].xmin = SetMin({p.Xmin : p \in all})
           /\ nodes[Root].xmax = SetMax({p.Xmax : p \in all})
           /\ nodes[Root].ymin = SetMin({p.Ymin : p \in all})
           /\ nodes[Root].ymax = SetMax({p.Ymax : p \in all})
           /\ nodes[Root].zmin = SetMin({p.Zmin : p \in all})
           /\ nodes[Root].zmax = SetMax({p.Zmax : p \in all})

\* a split root over primitives none of whose boxes is the union
C8_Witness ==
    /\ BuildDone
    /\ IsInternal(nodes[Root])
    /\ \A i \in 1..Len(scene) : ~Contains(PrimBox(scene[i]), nodes[Root])

\* the index (from 0) of the first element of node i's record in the buffer
NodeAt(i) == (CHOOSE e \in {emitted[k] : k \in 1..Len(emitted)} :
                 e.kind = "node" /\ e.id = i).at

\* the quad index of node i's record
NodeAddr(i) == NodeAt(i) \div RGBA_ELEMS

RECURSIVE SubtreeNodes(_)
\* node i and everything below it
SubtreeNodes(i) ==
    IF i = 0 THEN {}
    ELSE {i} \cup SubtreeNodes(nodes[i].lower) \cup SubtreeNodes(nodes[i].higher)

\* e is the history entry of a node or of a primitive in the subtree of node i
InSubtree(e, i) ==
    \/ e.kind = "node" /\ e.id \in SubtreeNodes(i)
    \/ e.kind = "prim" /\ \E j \in SubtreeNodes(i) :
          /\ e.at > NodeAt(j)
          /\ e.at < NodeAt(j) + 3 * RGBA_ELEMS + Len(Flatten([k \in 1..Len(nodes[j].primitives) |->
                                                   StoreIntoBVH(scene[nodes[j].primitives[k]])]))

\* the records from quad index addr on are the emitted subtree of node child: the
\* record there is child's, and all that was emitted for the subtree, and nothing
\* else, lies in one run of the buffer that starts there
SubtreeEmittedAt(addr, child) ==
    /\ addr = NodeAddr(child)
    /\ SubSeq(compiledTree, addr * RGBA_ELEMS + 1, addr * RGBA_ELEMS + 8)
          = BoxQuads(nodes[child])
    /\ LET mine == {k \in 1..Len(emitted) : InSubtree(emitted[k], child)}
       IN \A k \in 1..Len(emitted) :
             (emitted[k].at >= addr * RGBA_ELEMS /\ \E m \in mine : k <= m) => k \in mine

\* C9: in a buffer compiled from an empty buffer the lower_addr and higher_addr slots
\* of every internal node record hold the quad index at which the record of the
\* lower, respectively higher, child begins, and the records from there on are the
\* emitted subtree of that child.
C9_ChildAddresses ==
    CompileDone =>
        \A i \in NodeIds :
            IsInternal(nodes[i]) =>
                /\ \E a \in 0..Len(compiledTree) :
                      /\ compiledTree[NodeAt(i) + 10] = UIntBits(a)
                      /\ SubtreeEmittedAt(a, nodes[i].lower)
                /\ \E a \in 0..Len(compiledTree) :
                      /\ compiledTree[NodeAt(i) + 11] = UIntBits(a)
                      /\ SubtreeEmittedAt(a, nodes[i].higher)

\* a compiled tree in which a child of the root is an internal node itself
C9_Witness ==
    /\ CompileDone
    /\ IsInternal(nodes[Root])
    /\ \/ IsInternal(nodes[nodes[Root].lower])
       \/ IsInternal(nodes[nodes[Root].higher])

\* the node that has node i as its lower or higher child
ParentOf(i) == CHOOSE j \in NodeIds : nodes[j].lower = i \/ nodes[j].higher = i

\* C10: in a compiled buffer the parent_addr slot of every non-root node record holds
\* the quad index at which the record of the node's parent begins: the node whose
\* lower_addr or higher_addr is this node's own address.
C10_ParentAddresses ==
    CompileDone =>
        \A i \in NodeIds \ {Root} :
            /\ compiledTree[NodeAt(i) + 12] = UIntBits(NodeAddr(ParentOf(i)))
            /\ UIntBits(NodeAddr(i)) \in { compiledTree[NodeAt(ParentOf(i)) + 10],
                                           compiledTree[NodeAt(ParentOf(i)) + 11] }

\* a compiled node whose parent is not the root, so its parent_addr is not 0
C10_Witness ==
    /\ CompileDone
    /\ \E i \in NodeIds \ {Root} : ParentOf(i) # Root /\ NodeAddr(ParentOf(i)) > 0

\* the history entries of the node records, in emission order
EmittedNodes == SelectSeq(emitted, LAMBDA e : e.kind = "node")

\* the flags slot (the first slot of the info quad) of the node record that starts
\* at element at (from 0)
FlagsAt(at) == compiledTree[at + 2 * RGBA_ELEMS + 1]

\* C11: in every compiled buffer a node record has the LEAF bit set if and only if
\* the tree node it encodes has no children, and a record with LEAF clear encodes a
\* node with two children.
C11_LeafBitIffNoChildren ==
    pc = "compiled" =>
        \A k \in 1..Len(EmittedNodes) :
            LET e == EmittedNodes[k]
                n == nodes[e.id]
            IN /\ HasBit(FlagsAt(e.at), LEAF) <=> (n.lower = 0 /\ n.higher = 0)
               /\ ~HasBit(FlagsAt(e.at), LEAF) => (n.lower # 0 /\ n.higher # 0)

\* a compiled buffer with records of both kinds, the root's an internal one
C11_Witness ==
    /\ pc = "compiled"
    /\ Len(EmittedNodes) >= 3
    /\ ~HasBit(FlagsAt(0), LEAF)
    /\ \E k \in 1..Len(EmittedNodes) : HasBit(FlagsAt(EmittedNodes[k].at), LEAF)

\* C12: in the buffer one Compile call produced exactly one node record has the
\* IS_ROOT bit set: the record of the tree root, which is the first record emitted.
C12_OneRootRecord ==
    pc = "compiled" =>
        /\ EmittedNodes # <<>>
        /\ emitted[1] = [kind |-> "node", id |-> Root, at |-> 0]
        /\ \A k \in 1..Len(EmittedNodes) :
              HasBit(FlagsAt(EmittedNodes[k].at), IS_ROOT) <=> k = 1
        /\ Cardinality({k \in 1..Len(EmittedNodes) :
                           HasBit(FlagsAt(EmittedNodes[k].at), IS_ROOT)}) = 1

\* a compiled buffer with a higher child that has children of its own: records
\* that are not the root's and were not compiled as a lower child
C12_Witness ==
    /\ pc = "compiled"
    /\ IsInternal(nodes[Root])
    /\ IsInternal(nodes[nodes[Root].higher])

\* C13: in a compiled buffer the IS_LOWER bit of a node record is set if and only if
\* the node is the lower child of its parent: it is clear on the root and on every
\* higher child, so exactly one record of every sibling pair has it.
C13_LowerBitIffLowerChild ==
    pc = "compiled" =>
        /\ \A k \in 1..Len(EmittedNodes) :
              LET e == EmittedNodes[k]
              IN HasBit(FlagsAt(e.at), IS_LOWER) <=>
                    \E j \in NodeIds : nodes[j].lower = e.id
        /\ ~HasBit(FlagsAt(NodeAt(Root)), IS_LOWER)
        /\ \A j \in NodeIds :
              IsInternal(nodes[j]) =>
                  /\ HasBit(FlagsAt(NodeAt(nodes[j].lower)), IS_LOWER)
                  /\ ~HasBit(FlagsAt(NodeAt(nodes[j].higher)), IS_LOWER)

\* a compiled buffer with two sibling pairs
C13_Witness ==
    /\ pc = "compiled"
    /\ Cardinality({j \in NodeIds : IsInternal(nodes[j])}) >= 2

RECURSIVE RunOfPrims(_)
\* the number of primitive records emitted in a row from history entry k on
RunOfPrims(k) ==
    IF k > Len(emitted) \/ emitted[k].kind # "prim" THEN 0 ELSE 1 + RunOfPrims(k + 1)

\* C14: in a compiled buffer bits 0-28 of the first slot of every leaf's info quad
\* equal the number of primitives stored in that leaf, which is also the number of
\* primitive records that follow the info quad; for every internal node they are 0.
C14_LeafCountBits ==
    pc = "compiled" =>
        \A k \in 1..Len(emitted) :
            emitted[k].kind = "node" =>
                LET e == emitted[k]
                    n == nodes[e.id]
                    flags == FlagsAt(e.at)
                IN IF HasBit(flags, LEAF)
                   THEN /\ LowBits(flags) = Len(n.primitives)
                        /\ LowBits(flags) = RunOfPrims(k + 1)
                        /\ LowBits(flags) > 0 => emitted[k + 1].at = e.at + 3 * RGBA_ELEMS
                   ELSE /\ LowBits(flags) = 0
                        /\ RunOfPrims(k + 1) = 0

\* a compiled buffer with leaves of different numbers of primitives
C14_Witness ==
    /\ pc = "compiled"
    /\ \E i, j \in NodeIds :
          /\ IsLeaf(nodes[i]) /\ IsLeaf(nodes[j])
          /\ Len(nodes[i].primitives) = 1
          /\ Len(nodes[j].primitives) = 2

\* the tag and the number of payload quads of the record of each variant
TagAndQuads(p) ==
    CASE p.type = SPHERE -> [tag |-> 0, quads |-> 1]
      [] p.type = DISC -> [tag |-> 1, quads |-> 2]
      [] p.type = TRIANGLE -> [tag |-> 2, quads |-> 3]
      [] p.type = CONE -> [tag |-> 3, quads |-> 4]

\* the element index (from 0) at which the record of history entry k ends
RecordEnd(k) == IF k < Len(emitted) THEN emitted[k + 1].at ELSE Len(compiledTree)

\* C16: every primitive record in a compiled leaf is a tag quad (tag, pad, pad, pad)
\* with tag 0 for Sphere, 1 for Disc, 2 for Triangle and 3 for Cone, followed by
\* exactly 1, 2, 3 and 4 payload quads, so the next record starts on a quad boundary.
C16_PrimitiveRecordLayout ==
    pc = "compiled" =>
        \A k \in 1..Len(emitted) :
            emitted[k].kind = "prim" =>
                LET e == emitted[k]
                    t == TagAndQuads(scene[e.id])
                IN /\ e.at % RGBA_ELEMS = 0
                   /\ RecordEnd(k) % RGBA_ELEMS = 0
                   /\ RecordEnd(k) - e.at = (1 + t.quads) * RGBA_ELEMS
                   /\ SubSeq(compiledTree, e.at + 1, e.at + RGBA_ELEMS)
                         = <<UIntBits(t.tag), FloatBits(RGBA_PAD), FloatBits(RGBA_PAD),
                             FloatBits(RGBA_PAD)>>

\* a compiled buffer with records of three variants, a node record after a cone's
C16_Witness ==
    /\ pc = "compiled"
    /\ Cardinality({scene[i].type : i \in 1..Len(scene)}) = 3
    /\ \E k \in 1..(Len(emitted) - 1) :
          /\ emitted[k].kind = "prim"
          /\ scene[emitted[k].id].type = CONE
          /\ emitted[k + 1].kind = "node"

RECURSIVE DepthOf(_)
\* the depth of node i: the number of Subdivide calls around the one that filled it
DepthOf(i) == IF i = Root THEN 0 ELSE 1 + DepthOf(ParentOf(i))

RECURSIVE RangeSize(_)
\* to - from of the call that filled node i: a leaf stores its whole range and the
\* ranges of two children make up the range of their parent
RangeSize(i) ==
    IF i = 0 THEN 0
    ELSE Len(nodes[i].primitives) + RangeSize(nodes[i].lower) + RangeSize(nodes[i].higher)

\* the call that filled node i ended the recursion
TerminatedAsLeaf(i) == nodes[i].lower = 0 /\ nodes[i].higher = 0

\* C15: a node of the built tree is a leaf if and only if its range holds at most
\* minPrimitivesPerNode primitives or its depth equals maxNumLevels - 1; hence no
\* node is deeper than maxNumLevels - 1 and every leaf above that depth holds at
\* most minPrimitivesPerNode primitives.
C15_LeafRule ==
    pc = "built" =>
        \A i \in NodeIds :
            /\ TerminatedAsLeaf(i) <=>
                  \/ RangeSize(i) <= minPrimitivesPerNode
                  \/ DepthOf(i) = maxNumLevels - 1
            /\ DepthOf(i) <= maxNumLevels - 1
            /\ (TerminatedAsLeaf(i) /\ DepthOf(i) < maxNumLevels - 1) =>
                  Len(nodes[i].primitives) <= minPrimitivesPerNode

\* a built tree with a leaf the depth limit made, of more primitives than
\* minPrimitivesPerNode, next to a leaf above that depth
C15_Witness ==
    /\ pc = "built"
    /\ \E i, j \in NodeIds :
          /\ TerminatedAsLeaf(i)
          /\ DepthOf(i) = maxNumLevels - 1
          /\ Len(nodes[i].primitives) > minPrimitivesPerNode
          /\ TerminatedAsLeaf(j)
          /\ DepthOf(j) < maxNumLevels - 1
          /\ Len(nodes[j].primitives) > 0

\* the primitive handles the renderer still holds: those in the leaves of BVH.tree
RetainedHandles ==
    UNION { {nodes[i].primitives[k] : k \in 1..Len(nodes[i].primitives)} : i \in NodeIds }

\* C18: after SetPrimitives has returned the renderer retains neither the tree nor
\* any primitive handle, only the compiled buffer, so whenever the caller destroys
\* its primitives no retained state refers to a destroyed primitive.
C18_NothingRetained ==
    pc \in {"returned", "deleted"} =>
        /\ nodes = <<>>
        /\ RetainedHandles = {}
        /\ RetainedHandles \cap deleted = {}

\* C19: Build called with maxNumLevels = 0 ends in a precondition failure instead of
\* building a tree as if the argument were valid: no Subdivide call fills a node and
\* the constructor does not return a tree.
C19_ZeroLevelsRejected ==
    maxNumLevels = 0 =>
        /\ \A i \in NodeIds : nodes[i] = NewBoundingBox
        /\ ~BuildDone

\* C20: at every level of the recursion progress is made: whenever Subdivide splits
\* a range [from, to), for any minPrimitivesPerNode >= 1, the split index lies
\* strictly between from and to, so the lower and the higher child each receive at
\* least one primitive and fewer than the parent.
C20_SplitMakesProgress ==
    [][(/\ pc = "build"
        /\ stack # <<>>
        /\ ~IsLeafRange(Head(stack).from, Head(stack).to, Head(stack).currentLevel))
       => LET c == Head(stack)
              lower == stack'[1]
              higher == stack'[2]
          IN /\ lower.from = c.from /\ lower.to = higher.from /\ higher.to = c.to
             /\ c.from < lower.to /\ lower.to < c.to
             /\ lower.to - lower.from >= 1 /\ lower.to - lower.from < c.to - c.from
             /\ higher.to - higher.from >= 1 /\ higher.to - higher.from < c.to - c.from]_vars

\* the place of node i's record in the order of emission
EmitIndex(i) == CHOOSE k \in 1..Len(EmittedNodes) : EmittedNodes[k].id = i

\* the nodes below node i
Descendants(i) == SubtreeNodes(nodes[i].lower) \cup SubtreeNodes(nodes[i].higher)

\* C21: Compile emits node records in preorder: exactly one record per tree node,
\* each node's record before the records of all its descendants, and all records of
\* its lower subtree before any record of its higher subtree.
C21_Preorder ==
    pc = "compiled" =>
        /\ Len(EmittedNodes) = Len(nodes)
        /\ \A i \in NodeIds :
              Cardinality({k \in 1..Len(EmittedNodes) : EmittedNodes[k].id = i}) = 1
        /\ \A i \in NodeIds :
              /\ \A d \in Descendants(i) : EmitIndex(i) < EmitIndex(d)
              /\ \A l \in SubtreeNodes(nodes[i].lower) :
                    \A h \in SubtreeNodes(nodes[i].higher) : EmitIndex(l) < EmitIndex(h)

\* a compiled tree whose root has a lower subtree of three nodes before its higher
\* child
C21_Witness ==
    /\ pc = "compiled"
    /\ IsInternal(nodes[Root])
    /\ IsInternal(nodes[nodes[Root].lower])
    /\ EmitIndex(nodes[Root].higher) = 5

\* C22: the decoder, given a buffer Compile produced from an empty one, starts
\* decoding each node at exactly the quad index where Compile emitted a node record,
\* visits the records in emission order, never reads an element at or past the end
\* of the buffer, and stops exactly at the buffer's end.
C22_PrintFollowsRecords ==
    /\ pc \notin OutOfBounds
    /\ \A k \in 1..Len(printed) :
          /\ k <= Len(EmittedNodes)
          /\ printed[k].at * RGBA_ELEMS = EmittedNodes[k].at
    /\ pc = "printed" =>
          /\ pos = Len(compiledTree)
          /\ Len(printed) = Len(EmittedNodes)

\* the next Subdivide call splits its range
Splits ==
    /\ pc = "build"
    /\ stack # <<>>
    /\ ~IsLeafRange(Head(stack).from, Head(stack).to, Head(stack).currentLevel)

\* the handles in [from, to) of prims are in ascending order of centre along axis
Ascending(prims, from, to, axis) ==
    \A i \in (from + 1)..(to - 1) :
        Center2(scene[prims[i]], axis) <= Center2(scene[prims[i + 1]], axis)

\* C23: when Subdivide splits a range the split axis is the one with the largest span
\* of the range's box, ties resolved x before y before z: x iff xrange >= yrange and
\* xrange >= zrange, otherwise y iff yrange >= zrange, otherwise z; exactly one axis
\* is always chosen, and it is the axis the range is then ordered along.
C23_SplitAxis ==
    [][Splits =>
          LET c == Head(stack)
              b == RangeBox(primitives, c.from, c.to)
              xrange == Span(b.xmin, b.xmax)
              yrange == Span(b.ymin, b.ymax)
              zrange == Span(b.zmin, b.zmax)
              axis == IF xrange >= yrange /\ xrange >= zrange THEN "x"
                      ELSE IF yrange >= zrange THEN "y" ELSE "z"
          IN /\ SplitAxis(b) = axis
             /\ LET span == CASE axis = "x" -> xrange [] axis = "y" -> yrange
                               [] axis = "z" -> zrange
                IN span >= xrange /\ span >= yrange /\ span >= zrange
             /\ Ascending(primitives', c.from, c.to, axis)]_vars

\* a built tree split at the root along x, where the spans along x and y are the
\* same, and below the root along z
C23_Witness ==
    /\ pc = "built"
    /\ IsInternal(nodes[Root])
    /\ nodes[Root].xmax - nodes[Root].xmin = nodes[Root].ymax - nodes[Root].ymin
    /\ nodes[Root].xmax - nodes[Root].xmin >= nodes[Root].zmax - nodes[Root].zmin
    /\ \E i \in NodeIds :
          /\ IsInternal(nodes[i])
          /\ nodes[i].zmax - nodes[i].zmin > nodes[i].xmax - nodes[i].xmin
          /\ nodes[i].zmax - nodes[i].zmin > nodes[i].ymax - nodes[i].ymin

\* how often handle h occurs in prims
Occurrences(prims, h) == Cardinality({i \in 1..Len(prims) : prims[i] = h})

\* C24: Build only permutes the caller's sequence: after Build it holds the same
\* multiset of handles as before, and each Subdivide call on [from, to) leaves every
\* element outside [from, to) at its position and, when it splits, leaves [from, to)
\* in ascending order of centre along the chosen axis.
C24_BuildOnlyPermutes ==
    [][pc = "build" =>
          LET c == Head(stack)
              b == RangeBox(primitives, c.from, c.to)
          IN /\ Len(primitives') = Len(primitives)
             /\ \A h \in 1..Len(scene) :
                   Occurrences(primitives', h) = Occurrences(primitives, h)
             /\ \A i \in 1..Len(primitives) :
                   (i <= c.from \/ i > c.to) => primitives'[i] = primitives[i]
             /\ Splits => Ascending(primitives', c.from, c.to, SplitAxis(b))
             /\ pc' = "built" =>
                   \A h \in 1..Len(scene) : Occurrences(primitives', h) = 1]_vars

\* a built tree for which the caller's sequence was reordered
C24_Witness ==
    /\ pc = "built"
    /\ Len(scene) = 3
    /\ primitives[1] = 1
    /\ primitives[2] = 3
    /\ primitives[3] = 2

\* element idx (from 1) of the buffer is the lower_addr or the higher_addr slot of the
\* record of a node without primitives
IsChildAddrSlot(idx) ==
    \E k \in 1..Len(EmittedNodes) :
        /\ nodes[EmittedNodes[k].id].primitives = <<>>
        /\ idx \in {EmittedNodes[k].at + 2 * RGBA_ELEMS + 2,
                    EmittedNodes[k].at + 2 * RGBA_ELEMS + 3}

\* C25: during Compile the only elements of the buffer overwritten after being
\* appended are the lower_addr and higher_addr placeholder slots of internal nodes,
\* each overwritten once, while it still holds the placeholder, with the quad index
\* at which the child starts; every other element, every parent_addr slot included,
\* keeps the value it was appended with, and when Compile has returned no internal
\* node holds a placeholder 0.
C25_OnlyPlaceholdersOverwritten ==
    [][/\ pc = "compile" =>
            /\ Len(compiledTree') >= Len(compiledTree)
            /\ \A idx \in 1..Len(compiledTree) :
                  compiledTree'[idx] # compiledTree[idx] =>
                      /\ IsChildAddrSlot(idx)
                      /\ compiledTree[idx] = FloatBits(0)
                      /\ compiledTree'[idx] = UIntBits(Len(compiledTree) \div RGBA_ELEMS)
                      /\ compiledTree'[idx] # FloatBits(0)
       /\ pc = "compiled" =>
            \A i \in NodeIds :
                IsInternal(nodes[i]) =>
                    /\ compiledTree[NodeAt(i) + 10] = UIntBits(NodeAddr(nodes[i].lower))
                    /\ compiledTree[NodeAt(i) + 11] = UIntBits(NodeAddr(nodes[i].higher))
                    /\ compiledTree[NodeAt(i) + 10] # FloatBits(0)
                    /\ compiledTree[NodeAt(i) + 11] # FloatBits(0)]_vars

\* a compiled buffer in which two higher_addr placeholders were overwritten, the
\* first of them after the whole lower subtree of three records was appended
C25_Witness ==
    /\ pc = "compiled"
    /\ IsInternal(nodes[Root])
    /\ IsInternal(nodes[nodes[Root].lower])
    /\ LowBits(compiledTree[NodeAt(Root) + 11]) > LowBits(compiledTree[NodeAt(nodes[Root].lower) + 11])

\* every address in the compiled buffer is the quad index, from the start of the
\* buffer, of the record it refers to
AddressesAbsolute ==
    \A i \in NodeIds :
        /\ SubSeq(compiledTree, NodeAddr(i) * RGBA_ELEMS + 1, NodeAddr(i) * RGBA_ELEMS + 8)
              = BoxQuads(nodes[i])
        /\ IsInternal(nodes[i]) =>
              /\ compiledTree[NodeAt(i) + 10] = UIntBits(NodeAddr(nodes[i].lower))
              /\ compiledTree[NodeAt(i) + 11] = UIntBits(NodeAddr(nodes[i].higher))
        /\ i # Root => compiledTree[NodeAt(i) + 12] = UIntBits(NodeAddr(ParentOf(i)))

\* C26: when Compile is called on a buffer that already holds k whole quads it leaves
\* those k quads unchanged, emits the root record at quad index k, and every lower,
\* higher and non-root parent address it writes is the absolute quad index, counted
\* from the start of the buffer, of the node it refers to.
C26_CompileAppends ==
    [][(pc = "built" \/ pc = "compile") =>
          LET k == IF emitted = <<>> THEN Len(compiledTree) \div RGBA_ELEMS
                   ELSE emitted[1].at \div RGBA_ELEMS
          IN /\ pc' = "compiled" => AddressesAbsolute'
             /\ Len(compiledTree') >= Len(compiledTree)
             /\ SubSeq(compiledTree', 1, k * RGBA_ELEMS) = CallerQuads(k)
             /\ (emitted = <<>> /\ emitted' # <<>>) =>
                   emitted'[1] = [kind |-> "node", id |-> Root, at |-> k * RGBA_ELEMS]]_vars

\* a buffer of two quads of the caller followed by a compiled tree of five nodes
C26_Witness ==
    /\ pc = "compiled"
    /\ NodeAddr(Root) = 2
    /\ Len(nodes) = 5

\* C27: for minPrimitivesPerNode >= 2, any maxNumLevels >= 1 and any non-empty input
\* every node of the built tree covers a non-empty range: every leaf holds at least
\* one primitive, both children of every internal node hold at least one primitive
\* and fewer than the parent, and Compile reaches every node without meeting an
\* absent child.
C27_NoEmptyRanges ==
    (minPrimitivesPerNode >= 2 /\ maxNumLevels >= 1 /\ Len(scene) > 0) =>
        /\ \A k \in 1..Len(stack) : stack[k].from < stack[k].to
        /\ pc = "built" =>
              \A i \in NodeIds :
                  /\ IsLeaf(nodes[i]) \/ IsInternal(nodes[i])
                  /\ RangeSize(i) >= 1
                  /\ IsInternal(nodes[i]) =>
                        /\ RangeSize(nodes[i].lower) >= 1
                        /\ RangeSize(nodes[i].lower) < RangeSize(i)
                        /\ RangeSize(nodes[i].higher) >= 1
                        /\ RangeSize(nodes[i].higher) < RangeSize(i)
        /\ pc \notin NullDereference
        /\ \A k \in 1..Len(cstack) : cstack[k].node # 0
        /\ pc = "compiled" => Len(EmittedNodes) = Len(nodes)

\* a tree compiled with minPrimitivesPerNode = 2 over three primitives of the same
\* box, which only the guard keeps from an empty range
C27_Witness ==
    /\ pc = "compiled"
    /\ minPrimitivesPerNode >= 2
    /\ Len(scene) = 3
    /\ \A i \in 1..Len(scene) : scene[i] = scene[1]
    /\ IsInternal(nodes[Root])

\* the box and the axis of the call at the head of the stack
HeadBox == RangeBox(primitives, Head(stack).from, Head(stack).to)
HeadAxis == SplitAxis(HeadBox)

\* in a step of a splitting call: the index the forward walk ends at, before the guard
Candidate ==
    Walk(primitives', Head(stack).from, Head(stack).to, HeadAxis, Middle2(HeadBox, HeadAxis))

\* the sum min + max of primitive p on an axis, as a number
Sum2(p, axis) ==
    CASE axis = "x" -> p.Xmin + p.Xmax
      [] axis = "y" -> p.Ymin + p.Ymax
      [] axis = "z" -> p.Zmin + p.Zmax

\* the span of box b on an axis, as a number
Span2(b, axis) ==
    CASE axis = "x" -> b.xmax - b.xmin
      [] axis = "y" -> b.ymax - b.ymin
      [] axis = "z" -> b.zmax - b.zmin

\* the call at the head of the stack computes the span of its box and the centres of
\* its primitives on the split axis without rounding
HeadExact ==
    /\ Span2(HeadBox, HeadAxis) = Fl32(Span2(HeadBox, HeadAxis))
    /\ \A i \in (Head(stack).from + 1)..Head(stack).to :
          Sum2(scene[primitives[i]], HeadAxis) = Center2(scene[primitives[i]], HeadAxis)

\* C28 as stated: whenever Subdivide splits a non-empty range, the candidate split
\* index found by the forward walk is greater than from: the lower child is never
\* handed an empty range and the guard's 'candidate equals from' branch is never
\* taken.
C28_CandidateAboveFrom ==
    [][Splits =>
          /\ Candidate > Head(stack).from
          /\ stack'[1].from < stack'[1].to]_vars

\* C28 amended: whenever Subdivide splits a non-empty range and neither the span of
\* the range's box nor any sum min + max on the split axis is rounded, the candidate
\* split index is greater than from and the lower child is handed a non-empty range.
C28_CandidateAboveFromIfExact ==
    [][(Splits /\ HeadExact) =>
          /\ Candidate > Head(stack).from
          /\ stack'[1].from < stack'[1].to]_vars

\* a built tree over two primitives of the same box, whose centres are the middle of
\* the range's box: the walk passed both and the lower child holds the two
C28_Witness ==
    /\ pc = "built"
    /\ Len(scene) = 2
    /\ scene[1] = scene[2]
    /\ IsInternal(nodes[Root])
    /\ RangeSize(nodes[Root].lower) = 2

RECURSIVE PreorderLeaves(_)
\* the primitive lists of the leaves below node i, one after the other in preorder
PreorderLeaves(i) ==
    IF i = 0 THEN <<>>
    ELSE nodes[i].primitives \o PreorderLeaves(nodes[i].lower)
           \o PreorderLeaves(nodes[i].higher)

\* C29: after Build the leaves of the tree partition the input: every input handle is
\* stored in exactly one leaf exactly once, and the leaves' primitive lists, one
\* after the other in preorder (lower before higher), are the caller's reordered
\* sequence as Build left it.
C29_LeavesPartitionInput ==
    pc = "built" =>
        /\ PreorderLeaves(Root) = primitives
        /\ \A h \in 1..Len(scene) :
              Cardinality({ <<i, k>> \in NodeIds \X (1..Len(scene)) :
                               /\ k <= Len(nodes[i].primitives)
                               /\ nodes[i].primitives[k] = h }) = 1

\* a built tree of three leaves over a sequence that Build has reordered
C29_Witness ==
    /\ pc = "built"
    /\ Cardinality({i \in NodeIds : IsLeaf(nodes[i])}) = 3
    /\ primitives # [i \in 1..Len(scene) |-> i]

RECURSIVE PrimQuads(_)
\* the number of quads of the records of the primitives ps
PrimQuads(ps) ==
    IF ps = <<>> THEN 0
    ELSE Len(StoreIntoBVH(scene[Head(ps)])) \div RGBA_ELEMS + PrimQuads(Tail(ps))

RECURSIVE SubtreeQuads(_)
\* the number of quads of the records of node i and of everything below it
SubtreeQuads(i) ==
    IF i = 0 THEN 0
    ELSE 3 + PrimQuads(nodes[i].primitives) + SubtreeQuads(nodes[i].lower)
           + SubtreeQuads(nodes[i].higher)

\* C30: in a compiled buffer, for every internal node whose record starts at quad
\* index a, lower_addr = a + 3 and higher_addr = lower_addr + the number of quads of
\* the whole lower subtree; hence a < lower_addr < higher_addr, and every non-root
\* node's parent_addr is smaller than the node's own address.
C30_AddressArithmetic ==
    pc = "compiled" =>
        \A i \in NodeIds :
            LET a == NodeAddr(i)
                lowerAddr == compiledTree[NodeAt(i) + 10]
                higherAddr == compiledTree[NodeAt(i) + 11]
                parentAddr == compiledTree[NodeAt(i) + 12]
            IN /\ IsInternal(nodes[i]) =>
                     /\ lowerAddr = UIntBits(a + 3)
                     /\ higherAddr = UIntBits(a + 3 + SubtreeQuads(nodes[i].lower))
                     /\ a < LowBits(lowerAddr)
                     /\ LowBits(lowerAddr) < LowBits(higherAddr)
               /\ i # Root => (parentAddr.top = {} /\ LowBits(parentAddr) < a)

\* a compiled buffer whose root has a lower subtree of three nodes, so that its
\* higher_addr lies more than a leaf's record behind its lower_addr
C30_Witness ==
    /\ pc = "compiled"
    /\ IsInternal(nodes[Root])
    /\ IsInternal(nodes[nodes[Root].lower])
    /\ SubtreeQuads(nodes[Root].lower) >= 13

====
